---- MODULE Spec2Model ----
(***************************************************************************)
(* Model of src/location-analysis/location.py: HotspotFinder.              *)
(*                                                                         *)
(* One run of find_hotspots_by_id is modelled as a sequential process that *)
(* blocks at each external call (resolve, nearby search, file write).      *)
(*                                                                         *)
(* Conventions                                                             *)
(*   - a Python str is a sequence of one-character strings, so that        *)
(*     str.lower(), str.startswith() and "in" are computed, not assumed;   *)
(*   - an optional value (a key that may be absent from an API dict, or a  *)
(*     None) is <<>> when absent and <<v>> when present;                   *)
(*   - latitude and longitude are integers in metres of arc (the angle     *)
(*     that subtends 1 m on a sphere of radius 6371 km), so the value 0 is *)
(*     the coordinate 0.0; distances are in metres, the rounded            *)
(*     distance_km field is in hundredths of a kilometre.                  *)
(***************************************************************************)
EXTENDS Integers, Sequences, FiniteSets, TLC

VARIABLES
    pc,                  \* position of the run: "start", "resolving", "searching", "saving", "done",
                         \* or "interrupted" once main has caught a KeyboardInterrupt
    identifier,          \* argument of find_hotspots_by_id
    id_type,             \* argument of find_hotspots_by_id
    radius_km,           \* argument of find_hotspots_by_id
    categories,          \* argument of find_hotspots_by_id: <<>> (None) or <<list>>
    resolve_params,      \* params of the resolve call issued by get_restaurant_location (<<>> before)
    restaurant_location, \* <<>> (None) or <<location_data>>
    all_hotspots,        \* the dict built by find_all_hotspots: category -> list of place_data
    ci,                  \* index in categories_to_search of the category being processed
    qi,                  \* index in hotspot_categories[category] of the query in flight
    inflight,            \* external calls issued and not yet returned
    search_calls,        \* log of the nearby-search calls issued: <<category, query>>
    responses,           \* log of the returned nearby-search calls: what the service did, what
                         \* search_nearby_places returned
    first_seen,          \* category -> its list as accumulated, before the sort
    files,               \* files present under hotspot_data/ written by this run
    result,              \* what find_hotspots_by_id returned: kind "running" before it returns,
                         \* then kind "None" or kind "dict" with the dict's entries
    events_left,         \* hits and failures the nearby search may still produce (bounds the model)
    interrupt            \* <<>> until the user interrupts the run, then <<what the run had done>>

vars == <<pc, identifier, id_type, radius_km, categories, resolve_params,
          restaurant_location, all_hotspots, ci, qi, inflight, search_calls,
          responses, first_seen, files, result, events_left, interrupt>>

----------------------------------------------------------------------------
(* Bounds of the model *)

\* hits in one response of the nearby search
MaxHits == 2
\* hits returned plus calls failed, over the nearby-search calls of one run
MaxEvents == 3

----------------------------------------------------------------------------
(* Python values *)

None == <<>>
Some(v) == <<v>>
IsNone(o) == o = <<>>

\* dict.get(key, default) on a key that may be absent
Get(o, default) == IF o = <<>> THEN default ELSE o[1]

\* truthiness of an optional number: None and 0 are falsy
Truthy(o) == o # <<>> /\ o[1] # 0

UpperCase == <<"A","B","C","D","E","F","G","H","I","J","K","L","M",
               "N","O","P","Q","R","S","T","U","V","W","X","Y","Z">>
LowerCase == <<"a","b","c","d","e","f","g","h","i","j","k","l","m",
               "n","o","p","q","r","s","t","u","v","w","x","y","z">>

LowerChar(c) ==
    IF \E i \in 1..Len(UpperCase) : UpperCase[i] = c
    THEN LowerCase[CHOOSE i \in 1..Len(UpperCase) : UpperCase[i] = c]
    ELSE c

\* str.lower()
Lower(s) == [i \in 1..Len(s) |-> LowerChar(s[i])]

\* str.startswith(prefix)
StartsWith(s, prefix) ==
    /\ Len(s) >= Len(prefix)
    /\ \A i \in 1..Len(prefix) : s[i] = prefix[i]

\* c in s, for a one-character c
Contains(s, c) == \E i \in 1..Len(s) : s[i] = c

----------------------------------------------------------------------------
(* HotspotFinder.__init__: the category table.  The model keeps the first  *)
(* three categories of the source's table and the first query terms of     *)
(* each (two, one and one); the loops over it are the source's.            *)

CategoryOrder == <<"tourist_attractions", "restaurants", "shopping">>

hotspot_categories ==
    [c \in {CategoryOrder[i] : i \in 1..Len(CategoryOrder)} |->
        CASE c = "tourist_attractions" -> <<"tourist attraction", "monument">>
          [] c = "restaurants"         -> <<"restaurant">>
          [] c = "shopping"            -> <<"shopping mall">>]

\* list(self.hotspot_categories.keys()): insertion order
CategoryKeys == CategoryOrder

----------------------------------------------------------------------------
(* calculate_distance *)

RECURSIVE SqrtSearch(_, _, _)
\* the largest r in lo..hi with r*r <= n
SqrtSearch(n, lo, hi) ==
    IF lo >= hi THEN lo
    ELSE LET mid == (lo + hi + 1) \div 2
         IN  IF mid * mid <= n THEN SqrtSearch(n, mid, hi)
                               ELSE SqrtSearch(n, lo, mid - 1)

Abs(x) == IF x < 0 THEN -x ELSE x

\* The Haversine distance in metres.  Coordinates are metres of arc, so along
\* a meridian the formula gives |dlat| exactly; within a few kilometres of the
\* equator cos(lat1)*cos(lat2) differs from 1 by less than 1e-7, and the
\* formula is sqrt(dlat^2 + dlon^2) to well below the model's 1 m resolution.
\* Every pair of points of the model is at a whole number of metres.
calculate_distance(lat1, lon1, lat2, lon2) ==
    LET dlat == lat2 - lat1
        dlon == lon2 - lon1
    IN  SqrtSearch(dlat * dlat + dlon * dlon, 0, Abs(dlat) + Abs(dlon))

\* round(distance, 2): metres to hundredths of a kilometre, half to even
Round2(d) ==
    LET q == d \div 10
        r == d % 10
    IN  IF r < 5 THEN q
        ELSE IF r > 5 THEN q + 1
        ELSE IF q % 2 = 0 THEN q ELSE q + 1

\* faulty variant of WithinRadius: the radius handed to the service is
\* trusted and no hit is filtered again
WithinRadiusTrusted(distance, radius) == TRUE

\* distance <= radius_km, the distance in metres and the radius in kilometres
WithinRadius(distance, radius) == distance <= radius * 1000

----------------------------------------------------------------------------
(* search_nearby_places *)

\* a place of an API response: the keys the code reads
Hit(title, address, lat, lon) ==
    [title |-> title, address |-> address, latitude |-> lat, longitude |-> lon]

Unknown == <<"U","n","k","n","o","w","n">>
UnknownAddress == <<"U","n","k","n","o","w","n"," ","A","d","d","r","e","s","s">>

\* line 132: if coords.get("latitude") and coords.get("longitude")
HasCoords(place) == Truthy(place.latitude) /\ Truthy(place.longitude)

\* lines 133-136
HitDistance(center_lat, center_lon, place) ==
    calculate_distance(center_lat, center_lon, place.latitude[1], place.longitude[1])

\* lines 132 and 139: the hit is appended to places
Kept(center_lat, center_lon, place, radius) ==
    /\ HasCoords(place)
    /\ WithinRadius(HitDistance(center_lat, center_lon, place), radius)

\* lines 140-156; the fields copied unchanged from the hit and never read
\* again (rating, reviews_count, price_level, type, data_id, place_id, phone,
\* website, hours) are left out
PlaceData(center_lat, center_lon, place, query) ==
    [name        |-> Get(place.title, Unknown),
     address     |-> Get(place.address, UnknownAddress),
     latitude    |-> place.latitude[1],
     longitude   |-> place.longitude[1],
     distance_km |-> Round2(HitDistance(center_lat, center_lon, place)),
     category    |-> query]

RECURSIVE FilterPlaces(_, _, _, _, _)
\* lines 127-157: the loop over results["local_results"]
FilterPlaces(center_lat, center_lon, hits, query, radius) ==
    IF hits = <<>> THEN <<>>
    ELSE LET place == Head(hits)
             rest  == FilterPlaces(center_lat, center_lon, Tail(hits), query, radius)
         IN  IF Kept(center_lat, center_lon, place, radius)
             THEN <<PlaceData(center_lat, center_lon, place, query)>> \o rest
             ELSE rest

\* lines 115-163.  resp is what GoogleSearch(params).get_dict() did: it raised,
\* or it returned a dict with or without the key "local_results".
search_nearby_places(center_lat, center_lon, query, radius, resp) ==
    IF resp.raised THEN <<>>
    ELSE IF IsNone(resp.local_results) THEN <<>>
    ELSE FilterPlaces(center_lat, center_lon, resp.local_results[1], query, radius)

----------------------------------------------------------------------------
(* find_all_hotspots: the duplicate filter and the sort *)

\* faulty variant of SamePlace: the comparison without .lower()
SamePlaceCaseSensitive(existing, place) ==
    /\ existing.name = place.name
    /\ existing.address = place.address

\* lines 192-193
SamePlace(existing, place) ==
    /\ Lower(existing.name) = Lower(place.name)
    /\ Lower(existing.address) = Lower(place.address)

\* lines 190-195
IsDuplicate(acc, place) == \E i \in 1..Len(acc) : SamePlace(acc[i], place)

RECURSIVE AppendNew(_, _)
\* lines 189-198: places appended to acc, each unless it duplicates acc so far
AppendNew(acc, places) ==
    IF places = <<>> THEN acc
    ELSE IF IsDuplicate(acc, Head(places))
         THEN AppendNew(acc, Tail(places))
         ELSE AppendNew(Append(acc, Head(places)), Tail(places))

\* faulty variant of Before: a sort that moves a later element in front of an
\* earlier one of equal key
BeforeOrEqual(x, y) == x.distance_km <= y.distance_km

\* the comparison of list.sort(key=...): x goes before y only when strictly smaller
Before(x, y) == x.distance_km < y.distance_km

RECURSIVE InsertSorted(_, _)
\* x inserted into sorted s behind every element it is not strictly before
InsertSorted(x, s) ==
    IF s = <<>> THEN <<x>>
    ELSE IF Before(x, Head(s)) THEN <<x>> \o s
    ELSE <<Head(s)>> \o InsertSorted(x, Tail(s))

RECURSIVE SortByDistance(_)
\* line 204: list.sort(key=lambda x: x["distance_km"]), a stable sort
SortByDistance(s) ==
    IF s = <<>> THEN <<>>
    ELSE InsertSorted(s[Len(s)], SortByDistance(SubSeq(s, 1, Len(s) - 1)))

----------------------------------------------------------------------------
(* get_restaurant_location *)

\* faulty variant of DetectIdType: "0x" anywhere in the identifier, not only
\* at its start
DetectIdTypeAnywhere(ident, t) ==
    IF t = "auto"
    THEN IF (\E i \in 1..(Len(ident) - 1) : ident[i] = "0" /\ ident[i + 1] = "x")
            \/ Contains(ident, ":")
         THEN "data_id"
         ELSE "place_id"
    ELSE t

\* lines 30-35
DetectIdType(ident, t) ==
    IF t = "auto"
    THEN IF StartsWith(ident, <<"0", "x">>) \/ Contains(ident, ":")
         THEN "data_id"
         ELSE "place_id"
    ELSE t

\* lines 37-50
ResolveParams(ident, t) ==
    IF DetectIdType(ident, t) = "data_id"
    THEN [engine |-> "google_maps_reviews", key |-> "data_id", value |-> ident]
    ELSE [engine |-> "google_maps", key |-> "place_id", value |-> ident]

UnknownRestaurant ==
    <<"U","n","k","n","o","w","n"," ","R","e","s","t","a","u","r","a","n","t">>

\* lines 58-67 and 70-79; rating, reviews_count, data_id and place_id are
\* copied into the dict and never read again, and are left out
LocationData(place) ==
    [name      |-> Get(place.title, UnknownRestaurant),
     address   |-> Get(place.address, UnknownAddress),
     latitude  |-> place.latitude,
     longitude |-> place.longitude]

\* faulty variant of get_restaurant_location: the location is returned
\* without the check of its coordinates, and a call that raised yields a
\* location without any
LocationUnchecked(resp, t) ==
    IF resp.raised THEN Some(LocationData(Hit(None, None, None, None)))
    ELSE IF t = "data_id" /\ ~IsNone(resp.place_info)
    THEN Some(LocationData(resp.place_info[1]))
    ELSE IF ~IsNone(resp.local_results) /\ resp.local_results[1] # <<>>
    THEN Some(LocationData(resp.local_results[1][1]))
    ELSE None

\* lines 53-95.  resp is what GoogleSearch(params).get_dict() did; t is id_type
\* after the detection.  None, or Some(location_data).
get_restaurant_location(resp, t) ==
    IF resp.raised THEN None
    ELSE LET found ==
                 IF t = "data_id" /\ ~IsNone(resp.place_info)
                 THEN Some(LocationData(resp.place_info[1]))
                 ELSE IF ~IsNone(resp.local_results) /\ resp.local_results[1] # <<>>
                 THEN Some(LocationData(resp.local_results[1][1]))
                 ELSE None
         IN  IF IsNone(found) THEN None
             ELSE IF ~Truthy(found[1].latitude) \/ ~Truthy(found[1].longitude)
             THEN None
             ELSE found

----------------------------------------------------------------------------
(* save_hotspots_data *)

\* line 250
SafeName(name) ==
    [i \in 1..Len(name) |-> IF name[i] \in {" ", "/"} THEN "_" ELSE name[i]]

\* lines 251 and 256; the timestamp is one opaque piece
FilePath(location, radius) ==
    <<"hotspot_data/hotspots_near_", SafeName(location.name), "_", radius,
      "km_", "timestamp", ".json">>

RECURSIVE SumLen(_, _)
\* line 263
SumLen(hotspots, keys) ==
    IF keys = {} THEN 0
    ELSE LET k == CHOOSE k \in keys : TRUE
         IN  Len(hotspots[k]) + SumLen(hotspots, keys \ {k})

\* lines 259-269
DataToSave(hotspots, location, radius) ==
    [restaurant_info      |-> location,
     search_radius_km     |-> radius,
     total_hotspots       |-> SumLen(hotspots, DOMAIN hotspots),
     hotspots_by_category |-> hotspots,
     summary              |-> [c \in DOMAIN hotspots |-> Len(hotspots[c])]]

\* faulty variant of save_hotspots_data: the path is returned although the
\* write failed
SavePathAlways(location, radius, outcome) == FilePath(location, radius)

\* what the file system did to lines 255-272
SaveOutcomes == {"ok", "open_error", "dump_error"}

\* lines 253-279: the path returned, "" after a failure
save_hotspots_data(location, radius, outcome) ==
    IF outcome = "ok" THEN FilePath(location, radius) ELSE <<>>

\* the files the call leaves behind: a failed dump leaves a truncated file
FilesWritten(hotspots, location, radius, outcome) ==
    IF outcome = "ok"
    THEN {[path |-> FilePath(location, radius), complete |-> TRUE,
           data |-> Some(DataToSave(hotspots, location, radius))]}
    ELSE IF outcome = "dump_error"
    THEN {[path |-> FilePath(location, radius), complete |-> FALSE, data |-> None]}
    ELSE {}

----------------------------------------------------------------------------
(* Inputs: what the caller passes and what the external services return *)

Cafe == <<"C","a","f","e">>
CAFE == <<"C","A","F","E">>
Bar  == <<"B","a","r">>
Main == <<"M","a","i","n">>
MAIN == <<"M","A","I","N">>
Oak  == <<"O","a","k">>
Hub  == <<"T","h","e"," ","H","u","b">>

\* The anchor the resolve call can return is 600 m north and 800 m east of
\* (0, 0).  From it: 400 m, 0 m, 1000 m, 1001 m, 600 m (on the equator), no
\* longitude.
Hits ==
    { Hit(Some(Cafe), Some(Main), Some(600), Some(1200)),
      Hit(Some(CAFE), Some(MAIN), Some(600), Some(800)),
      Hit(Some(Bar),  Some(Main), Some(600), Some(1800)),
      Hit(Some(Bar),  Some(Oak),  Some(600), Some(1801)),
      Hit(Some(Cafe), Some(Oak),  Some(0),   Some(800)),
      Hit(None,       None,       Some(600), None) }

HitSeqs(n) == UNION {[1..k -> Hits] : k \in 0..n}

Min(a, b) == IF a <= b THEN a ELSE b

\* what one nearby-search call can do, given what the bounds still allow
SearchResponses(left) ==
    (IF left > 0 THEN {[raised |-> TRUE, local_results |-> None]} ELSE {})
    \cup {[raised |-> FALSE, local_results |-> Some(h)] : h \in HitSeqs(Min(MaxHits, left))}

\* what a response uses up of the bound
Events(resp) == IF resp.raised THEN 1 ELSE Len(resp.local_results[1])

AnchorPlaces ==
    { Hit(Some(Hub), Some(Main), Some(600), Some(800)),
      Hit(None,      None,       Some(600), Some(800)),
      Hit(Some(Hub), Some(Main), Some(0),   Some(800)),
      Hit(Some(Hub), Some(Main), Some(600), None),
      Hit(Some(Hub), Some(Main), None,      None) }

\* what the resolve call can do
ResolveResponses ==
    {[raised |-> TRUE, place_info |-> None, local_results |-> None]}
    \cup {[raised |-> FALSE, place_info |-> pi, local_results |-> lr] :
            pi \in {None} \cup {Some(p) : p \in AnchorPlaces},
            lr \in {None, Some(<<>>)} \cup {Some(<<p>>) : p \in AnchorPlaces}}

Identifiers ==
    { <<"0","x","1",":","0","x","2">>,
      <<"0","x","1">>,
      <<"a",":","b">>,
      <<"C","h","0","x">>,
      <<"x","0">>,
      <<"C","h","I","J">> }

IdTypes == {"auto", "data_id", "place_id"}

Radii == {1, 2}

CategoryChoices ==
    { None,
      Some(<<"restaurants">>),
      Some(<<"shopping", "restaurants">>) }

----------------------------------------------------------------------------
(* The run *)

NoResult  == [kind |-> "running"]
EmptyDict == [c \in {} |-> <<>>]

InitCommon ==
    /\ pc = "start"
    /\ resolve_params = None
    /\ restaurant_location = None
    /\ all_hotspots = EmptyDict
    /\ first_seen = EmptyDict
    /\ ci = 0
    /\ qi = 0
    /\ inflight = {}
    /\ search_calls = <<>>
    /\ responses = <<>>
    /\ files = {}
    /\ result = NoResult
    /\ interrupt = None

\* runs that exercise the aggregation: one identifier, every radius and
\* category choice
Init ==
    /\ InitCommon
    /\ identifier = <<"0","x","1",":","0","x","2">>
    /\ id_type = "auto"
    /\ radius_km \in Radii
    /\ categories \in CategoryChoices
    /\ events_left = MaxEvents

\* runs that exercise the resolution: every identifier and id type, one
\* short search behind it
InitResolve ==
    /\ InitCommon
    /\ identifier \in Identifiers
    /\ id_type \in IdTypes
    /\ radius_km = 1
    /\ categories = Some(<<"shopping">>)
    /\ events_left = 1

\* line 178: categories or list(self.hotspot_categories.keys())
CategoriesToSearch(cats) ==
    IF IsNone(cats) \/ cats[1] = <<>> THEN CategoryKeys ELSE cats[1]

\* line 182: all_hotspots[category] = []
WithEmpty(hotspots, category) ==
    [c \in DOMAIN hotspots \cup {category} |->
        IF c = category THEN <<>> ELSE hotspots[c]]

\* faulty variant of StoreSorted: a category that found nothing loses its key
StoreSortedNonEmpty(hotspots, category, acc) ==
    IF acc = <<>>
    THEN [c \in DOMAIN hotspots \ {category} |-> hotspots[c]]
    ELSE [hotspots EXCEPT ![category] = SortByDistance(acc)]

\* lines 204-205: the category's list, sorted, stays in the dict under its key
StoreSorted(hotspots, category, acc) ==
    [hotspots EXCEPT ![category] = SortByDistance(acc)]

\* faulty variant of NextQuery: a query whose call raised is tried again
NextQueryRetry(q, resp) == IF resp.raised THEN q ELSE q + 1

\* line 185: the for loop moves to the next query whatever the call did
NextQuery(q, resp) == q + 1

\* first_seen[category] = acc
WithList(d, category, acc) ==
    [c \in DOMAIN d \cup {category} |-> IF c = category THEN acc ELSE d[c]]

\* find_hotspots_by_id lines 284-288 into get_restaurant_location lines 27-53:
\* the resolve call is issued
CallResolve ==
    /\ pc = "start"
    /\ resolve_params' = Some(ResolveParams(identifier, id_type))
    /\ inflight' = inflight \cup {"resolve"}
    /\ pc' = "resolving"
    /\ UNCHANGED <<identifier, id_type, radius_km, categories, restaurant_location,
                   all_hotspots, ci, qi, search_calls, responses, first_seen,
                   files, result, events_left, interrupt>>

\* get_restaurant_location lines 53-95, find_hotspots_by_id lines 289-293 and
\* find_all_hotspots lines 168-186 up to the first nearby-search call
ResolveReturn(resp) ==
    /\ pc = "resolving"
    /\ LET location == get_restaurant_location(resp, DetectIdType(identifier, id_type))
           cats     == CategoriesToSearch(categories)
       IN  /\ restaurant_location' = location
           /\ IF IsNone(location)
              THEN /\ result' = [kind |-> "None"]
                   /\ inflight' = inflight \ {"resolve"}
                   /\ pc' = "done"
                   /\ UNCHANGED <<all_hotspots, ci, qi, search_calls>>
              ELSE /\ all_hotspots' = WithEmpty(EmptyDict, cats[1])
                   /\ ci' = 1
                   /\ qi' = 1
                   /\ search_calls' =
                          Append(search_calls, <<cats[1], hotspot_categories[cats[1]][1]>>)
                   /\ inflight' = (inflight \ {"resolve"}) \cup {"search"}
                   /\ pc' = "searching"
                   /\ UNCHANGED result
    /\ UNCHANGED <<identifier, id_type, radius_km, categories, resolve_params,
                   responses, first_seen, files, events_left, interrupt>>

\* search_nearby_places lines 125-163 for the call in flight, then
\* find_all_hotspots lines 189-201 and on to the next nearby-search call: the
\* next query of the category (line 185), or after the category's last query
\* the sort (lines 204-208) and the next category (lines 180-186), or after the
\* last category the return (lines 210-211), the summary (line 296, which
\* prints) and the start of save_hotspots_data (lines 249-256)
SearchStep(resp) ==
    /\ pc = "searching"
    /\ LET cats     == CategoriesToSearch(categories)
           category == cats[ci]
           queries  == hotspot_categories[category]
           query    == queries[qi]
           places   == search_nearby_places(restaurant_location[1].latitude[1],
                                            restaurant_location[1].longitude[1],
                                            query, radius_km, resp)
           acc      == AppendNew(all_hotspots[category], places)
           sorted   == StoreSorted(all_hotspots, category, acc)
           nq       == NextQuery(qi, resp)
       IN  /\ responses' = Append(responses,
                                  [category |-> category, query |-> query,
                                   resp |-> resp, places |-> places])
           /\ events_left' = events_left - Events(resp)
           /\ IF nq <= Len(queries)
              THEN /\ all_hotspots' = [all_hotspots EXCEPT ![category] = acc]
                   /\ qi' = nq
                   /\ search_calls' = Append(search_calls, <<category, queries[nq]>>)
                   /\ UNCHANGED <<ci, first_seen, inflight, pc>>
              ELSE IF ci < Len(cats)
              THEN /\ all_hotspots' = WithEmpty(sorted, cats[ci + 1])
                   /\ first_seen' = WithList(first_seen, category, acc)
                   /\ ci' = ci + 1
                   /\ qi' = 1
                   /\ search_calls' =
                          Append(search_calls,
                                 <<cats[ci + 1], hotspot_categories[cats[ci + 1]][1]>>)
                   /\ UNCHANGED <<inflight, pc>>
              ELSE /\ all_hotspots' = sorted
                   /\ first_seen' = WithList(first_seen, category, acc)
                   /\ inflight' = (inflight \ {"search"}) \cup {"write"}
                   /\ pc' = "saving"
                   /\ UNCHANGED <<ci, qi, search_calls>>
    /\ UNCHANGED <<identifier, id_type, radius_km, categories, resolve_params,
                   restaurant_location, files, result>>

\* the nearby-search call in flight returns and the run goes on
SearchReturn(resp) ==
    /\ SearchStep(resp)
    /\ UNCHANGED interrupt

\* save_hotspots_data lines 253-279 and find_hotspots_by_id lines 299-305
SaveReturn(outcome) ==
    /\ pc = "saving"
    /\ files' = files \cup FilesWritten(all_hotspots, restaurant_location[1],
                                        radius_km, outcome)
    /\ result' = [kind                |-> "dict",
                  restaurant_location |-> restaurant_location[1],
                  hotspots            |-> all_hotspots,
                  saved_file          |-> save_hotspots_data(restaurant_location[1],
                                                             radius_km, outcome)]
    /\ inflight' = inflight \ {"write"}
    /\ pc' = "done"
    /\ UNCHANGED <<identifier, id_type, radius_km, categories, resolve_params,
                   restaurant_location, all_hotspots, ci, qi, search_calls,
                   responses, first_seen, events_left, interrupt>>

Next ==
    \/ CallResolve
    \/ \E resp \in ResolveResponses : ResolveReturn(resp)
    \/ \E resp \in SearchResponses(events_left) : SearchReturn(resp)
    \/ \E outcome \in SaveOutcomes : SaveReturn(outcome)

Spec == Init /\ [][Next]_vars

SpecResolve == InitResolve /\ [][Next]_vars

----------------------------------------------------------------------------
(* The user interrupts the run *)

\* faulty variant of ExceptException: a bare `except:` catches every exception
ExceptBare(exc) == TRUE

\* lines 93, 161, 277: `except Exception` catches what derives from Exception;
\* KeyboardInterrupt derives from BaseException only
ExceptException(exc) == exc = "Exception"

\* what the run had done when the interrupt came: where it was, the number of
\* nearby-search calls issued, the dict find_all_hotspots had accumulated
Interrupted(during, calls, partial) ==
    Some([during |-> during, calls |-> calls, partial |-> partial])

\* the KeyboardInterrupt leaves find_all_hotspots (lines 165-211, no handler)
\* and find_hotspots_by_id (lines 281-305, no handler) and reaches main lines
\* 379-381, which prints and breaks out of the session loop: the locals of the
\* abandoned frames are dropped, nothing is returned, nothing is saved
Unwind(during, partial) ==
    /\ interrupt' = Interrupted(during, Len(search_calls), partial)
    /\ pc' = "interrupted"
    /\ inflight' = {}
    /\ restaurant_location' = None
    /\ all_hotspots' = EmptyDict
    /\ ci' = 0
    /\ qi' = 0
    /\ UNCHANGED <<identifier, id_type, radius_km, categories, resolve_params,
                   search_calls, first_seen, result>>

\* Ctrl-C while the resolve call blocks (line 53): line 93 does not catch it
InterruptResolve ==
    /\ pc = "resolving"
    /\ IsNone(interrupt)
    /\ Unwind("resolve", all_hotspots)
    /\ UNCHANGED <<responses, files, events_left>>

\* Ctrl-C while a nearby-search call blocks (line 125): whether line 161
\* catches it decides between "this query failed" and the way out to main
InterruptCall ==
    /\ pc = "searching"
    /\ IsNone(interrupt)
    /\ IF ExceptException("KeyboardInterrupt")
       THEN /\ SearchStep([raised |-> TRUE, local_results |-> None])
            /\ interrupt' = Interrupted("search", Len(search_calls), all_hotspots)
       ELSE /\ Unwind("search", all_hotspots)
            /\ UNCHANGED <<responses, files, events_left>>

\* Ctrl-C in the pause of line 201: the call has returned and lines 125-198
\* have added its places; the sleep is outside every try
InterruptSleep(resp) ==
    /\ pc = "searching"
    /\ IsNone(interrupt)
    /\ LET category == CategoriesToSearch(categories)[ci]
           query    == hotspot_categories[category][qi]
           places   == search_nearby_places(restaurant_location[1].latitude[1],
                                            restaurant_location[1].longitude[1],
                                            query, radius_km, resp)
           acc      == AppendNew(all_hotspots[category], places)
       IN  /\ responses' = Append(responses,
                                  [category |-> category, query |-> query,
                                   resp |-> resp, places |-> places])
           /\ events_left' = events_left - Events(resp)
           /\ Unwind("search", [all_hotspots EXCEPT ![category] = acc])
    /\ UNCHANGED files

\* Ctrl-C inside save_hotspots_data (lines 249-276): line 277 does not catch
\* it; the outcome says what had reached the disk by then: nothing
\* ("open_error"), a truncated file ("dump_error") or the whole file ("ok")
InterruptSave(outcome) ==
    /\ pc = "saving"
    /\ IsNone(interrupt)
    /\ files' = files \cup FilesWritten(all_hotspots, restaurant_location[1],
                                        radius_km, outcome)
    /\ Unwind("save", all_hotspots)
    /\ UNCHANGED <<responses, events_left>>

NextInterrupt ==
    \/ Next
    \/ InterruptResolve
    \/ InterruptCall
    \/ \E resp \in SearchResponses(events_left) : InterruptSleep(resp)
    \/ \E outcome \in SaveOutcomes : InterruptSave(outcome)

\* runs of the aggregation that the user may interrupt
SpecInterrupt == Init /\ [][NextInterrupt]_vars

----------------------------------------------------------------------------
(* Properties *)

\* find_all_hotspots has just returned: all_hotspots is its result (nothing
\* changes it afterwards)
Returned == pc = "saving"

Anchor == restaurant_location[1]

Indices(s) == 1..Len(s)

\* the key the duplicate rule compares
Key(p) == <<Lower(p.name), Lower(p.address)>>

\* the great-circle distance of a record from the anchor, in metres
RecordDistance(p) ==
    calculate_distance(Anchor.latitude[1], Anchor.longitude[1], p.latitude, p.longitude)

RECURSIVE Stream(_, _)
\* the places search_nearby_places returned for a category, over the first n
\* returned calls, in call order and hit order
Stream(category, n) ==
    IF n = 0 THEN <<>>
    ELSE Stream(category, n - 1)
         \o (IF responses[n].category = category THEN responses[n].places ELSE <<>>)

\* a hit of some returned call has coordinates and lies beyond the radius
SomeHitBeyondRadius ==
    \E n \in Indices(responses) :
        /\ ~responses[n].resp.raised
        /\ \E k \in Indices(responses[n].resp.local_results[1]) :
             LET h == responses[n].resp.local_results[1][k]
             IN  /\ ~IsNone(h.latitude) /\ ~IsNone(h.longitude)
                 /\ calculate_distance(Anchor.latitude[1], Anchor.longitude[1],
                                       h.latitude[1], h.longitude[1]) > radius_km * 1000

\* C1: no record of a returned category list lies farther from the anchor
\* than the requested radius, whatever the search calls returned.
C1_RadiusFilter ==
    Returned =>
        \A c \in DOMAIN all_hotspots : \A i \in Indices(all_hotspots[c]) :
            RecordDistance(all_hotspots[c][i]) <= radius_km * 1000

\* a run returned records although a call had returned a hit beyond the radius
C1_Witness ==
    /\ Returned
    /\ SomeHitBeyondRadius
    /\ \E c \in DOMAIN all_hotspots : all_hotspots[c] # <<>>

\* C2: a returned category list holds no two records equal in lowercased name
\* and lowercased address, and its records are exactly the places that were
\* the first of their key among the places found for the category, in query
\* order and hit order.
C2_Deduplicated ==
    Returned =>
        \A c \in DOMAIN all_hotspots :
            LET list   == all_hotspots[c]
                stream == Stream(c, Len(responses))
            IN  /\ \A i, j \in Indices(list) : i # j => Key(list[i]) # Key(list[j])
                /\ {list[i] : i \in Indices(list)} =
                       {stream[i] : i \in {k \in Indices(stream) :
                           \A j \in 1..(k - 1) : Key(stream[j]) # Key(stream[k])}}

\* two places differing only in case were found by two queries of one
\* category, the second nearer than the first, and the list holds the first
C2_Witness ==
    /\ Returned
    /\ \E c \in DOMAIN all_hotspots :
         LET stream == Stream(c, Len(responses))
         IN  \E i, j \in Indices(stream) :
                /\ i < j
                /\ stream[i] # stream[j]
                /\ stream[i].name # stream[j].name
                /\ Key(stream[i]) = Key(stream[j])
                /\ stream[i].category # stream[j].category
                /\ stream[j].distance_km < stream[i].distance_km
                /\ \E k \in Indices(all_hotspots[c]) : all_hotspots[c][k] = stream[i]

\* the position of x in s, whose elements are distinct
IndexOf(s, x) == CHOOSE k \in Indices(s) : s[k] = x

\* C3: a returned category list is ascending in distance_km, and records of
\* equal distance_km stand in the order in which they were accumulated.
C3_SortedStable ==
    Returned =>
        \A c \in DOMAIN all_hotspots :
            LET list == all_hotspots[c]
            IN  /\ c \in DOMAIN first_seen
                /\ Len(list) = Len(first_seen[c])
                /\ \A i \in Indices(list) : \E k \in Indices(first_seen[c]) :
                       first_seen[c][k] = list[i]
                /\ \A i, j \in Indices(list) :
                       i < j =>
                          /\ list[i].distance_km <= list[j].distance_km
                          /\ list[i].distance_km = list[j].distance_km =>
                                IndexOf(first_seen[c], list[i]) < IndexOf(first_seen[c], list[j])

\* a list of three records that the sort reordered and that holds a tie
C3_Witness ==
    /\ Returned
    /\ \E c \in DOMAIN all_hotspots :
         /\ Len(all_hotspots[c]) = 3
         /\ all_hotspots[c] # first_seen[c]
         /\ \E i \in 1..2 :
              /\ all_hotspots[c][i].distance_km = all_hotspots[c][i + 1].distance_km
              /\ RecordDistance(all_hotspots[c][i]) > RecordDistance(all_hotspots[c][i + 1])

\* C4: without a category subset the returned mapping has exactly the
\* taxonomy's keys, and a category for which no place survived is present with
\* an empty list.
C4_AllCategories ==
    (Returned /\ IsNone(categories)) =>
        /\ DOMAIN all_hotspots = DOMAIN hotspot_categories
        /\ \A c \in DOMAIN hotspot_categories :
               Stream(c, Len(responses)) = <<>> => all_hotspots[c] = <<>>

\* a run over all categories in which one category found places, another had
\* its call fail and a third got hits none of which survived
C4_Witness ==
    /\ Returned
    /\ IsNone(categories)
    /\ \E c \in DOMAIN all_hotspots : all_hotspots[c] # <<>>
    /\ \E n \in Indices(responses) :
         /\ responses[n].resp.raised
         /\ all_hotspots[responses[n].category] = <<>>
    /\ \E n \in Indices(responses) :
         /\ ~responses[n].resp.raised
         /\ responses[n].resp.local_results[1] # <<>>
         /\ all_hotspots[responses[n].category] = <<>>

RECURSIVE ExpectedCalls(_)
\* every (category, query) pair of the categories to search, in category order
\* and, within a category, in the order of its query terms
ExpectedCalls(cats) ==
    IF cats = <<>> THEN <<>>
    ELSE [i \in Indices(hotspot_categories[Head(cats)]) |->
             <<Head(cats), hotspot_categories[Head(cats)][i]>>]
         \o ExpectedCalls(Tail(cats))

IsPrefix(s, t) == Len(s) <= Len(t) /\ \A i \in Indices(s) : s[i] = t[i]

SomeCallRaised == \E n \in Indices(responses) : responses[n].resp.raised

HitKey(h) == <<Lower(Get(h.title, Unknown)), Lower(Get(h.address, UnknownAddress))>>

\* the hit has a latitude and a longitude and is within the radius of the anchor
InRadiusHit(h) ==
    /\ ~IsNone(h.latitude)
    /\ ~IsNone(h.longitude)
    /\ calculate_distance(Anchor.latitude[1], Anchor.longitude[1],
                          h.latitude[1], h.longitude[1]) <= radius_km * 1000

\* C5: when the search call of one query raised, the run still made the call
\* of every query of every category, and every in-radius hit of the calls that
\* did not raise is in the final list of its category (itself or the earlier
\* place it duplicates).
C5_FailureIsolated ==
    (Returned /\ SomeCallRaised) =>
        /\ search_calls = ExpectedCalls(CategoriesToSearch(categories))
        /\ Len(responses) = Len(search_calls)
        /\ \A n \in Indices(responses) :
               ~responses[n].resp.raised =>
                   \A k \in Indices(responses[n].resp.local_results[1]) :
                       LET h == responses[n].resp.local_results[1][k]
                       IN  InRadiusHit(h) =>
                               \E i \in Indices(all_hotspots[responses[n].category]) :
                                   Key(all_hotspots[responses[n].category][i]) = HitKey(h)

\* The part of C5 that the code keeps: after a raise every call is still made,
\* and every place search_nearby_places returned for another query is in the
\* final list of its category (itself or the earlier place it duplicates).
FailureIsolatedForKeptPlaces ==
    (Returned /\ SomeCallRaised) =>
        /\ search_calls = ExpectedCalls(CategoriesToSearch(categories))
        /\ Len(responses) = Len(search_calls)
        /\ \A n \in Indices(responses) : \A k \in Indices(responses[n].places) :
               \E i \in Indices(all_hotspots[responses[n].category]) :
                   Key(all_hotspots[responses[n].category][i]) = Key(responses[n].places[k])

\* a raise in the first query of a category whose second query found a place
FailureIsolatedWitness ==
    /\ Returned
    /\ \E n \in Indices(responses) :
         /\ responses[n].resp.raised
         /\ n < Len(responses)
         /\ responses[n + 1].category = responses[n].category
         /\ responses[n + 1].places # <<>>

\* search_nearby_places returned no place made from hit h of returned call n
Discarded(n, h) ==
    ~\E i \in Indices(responses[n].places) :
        LET p == responses[n].places[i]
        IN  /\ p.name = Get(h.title, Unknown)
            /\ p.address = Get(h.address, UnknownAddress)
            /\ ~IsNone(h.latitude) /\ p.latitude = h.latitude[1]
            /\ ~IsNone(h.longitude) /\ p.longitude = h.longitude[1]

\* C9: a hit of a call that did not raise is discarded by search_nearby_places
\* exactly when it has no latitude, or no longitude, or is farther from the
\* anchor than the radius; a coordinate equal to 0 is a coordinate.
C9_DiscardRule ==
    \A n \in Indices(responses) :
        ~responses[n].resp.raised =>
            \A k \in Indices(responses[n].resp.local_results[1]) :
                LET h == responses[n].resp.local_results[1][k]
                IN  Discarded(n, h) <=> ~InRadiusHit(h)

\* What the code does instead: a hit is discarded exactly when its latitude or
\* its longitude is missing or 0, or it is farther than the radius; a hit at
\* exactly the radius is kept.
DiscardRuleAsCoded ==
    \A n \in Indices(responses) :
        ~responses[n].resp.raised =>
            \A k \in Indices(responses[n].resp.local_results[1]) :
                LET h == responses[n].resp.local_results[1][k]
                IN  Discarded(n, h) <=>
                        \/ ~InRadiusHit(h)
                        \/ h.latitude = Some(0)
                        \/ h.longitude = Some(0)

\* C10: the nearby search is called once for each (category, query) pair of
\* the categories processed, in category order and query order, each call only
\* after the one before it has returned, and no query is called a second time.
C10_CallsInOrder ==
    /\ IsPrefix(search_calls, ExpectedCalls(CategoriesToSearch(categories)))
    /\ Cardinality(inflight) <= 1
    /\ Len(search_calls) - Len(responses) = (IF pc = "searching" THEN 1 ELSE 0)
    /\ (pc = "saving" \/ (pc = "done" /\ ~IsNone(restaurant_location))) =>
           search_calls = ExpectedCalls(CategoriesToSearch(categories))

\* a finished run over all categories in which the first call of the
\* two-query category raised and its second call returned hits
C10_Witness ==
    /\ pc = "saving"
    /\ IsNone(categories)
    /\ search_calls = ExpectedCalls(CategoryKeys)
    /\ responses[1].resp.raised
    /\ responses[2].category = responses[1].category
    /\ responses[2].query # responses[1].query
    /\ responses[2].places # <<>>

\* the place get_restaurant_location reads from a response that did not
\* raise, for id type t after detection: None when the response holds no place
ResolvedPlace(resp, t) ==
    IF t = "data_id" /\ resp.place_info # None THEN resp.place_info
    ELSE IF resp.local_results # None /\ resp.local_results[1] # <<>>
    THEN Some(resp.local_results[1][1])
    ELSE None

\* the resolve call raised, returned no place, or returned a place without
\* latitude or without longitude
Unresolvable(resp, t) ==
    \/ resp.raised
    \/ ResolvedPlace(resp, t) = None
    \/ ResolvedPlace(resp, t)[1].latitude = None
    \/ ResolvedPlace(resp, t)[1].longitude = None

\* C6: get_restaurant_location returns None for every unresolvable response,
\* and when it returned None find_hotspots_by_id returns None without a
\* nearby-search call and without writing a file.
C6_Unresolved ==
    /\ \A resp \in ResolveResponses : \A t \in {"data_id", "place_id"} :
           Unresolvable(resp, t) => get_restaurant_location(resp, t) = None
    /\ (pc # "start" /\ pc # "resolving" /\ IsNone(restaurant_location)) =>
           /\ pc = "done"
           /\ result = [kind |-> "None"]
           /\ search_calls = <<>>
           /\ responses = <<>>
           /\ files = {}
           /\ inflight = {}
    /\ (pc = "done" /\ result.kind = "None") => IsNone(restaurant_location)
    /\ (search_calls # <<>> \/ files # {}) => ~IsNone(restaurant_location)

\* a run whose resolve call was made and yielded no location
C6_Witness ==
    /\ pc = "done"
    /\ ~IsNone(resolve_params)
    /\ IsNone(restaurant_location)
    /\ result = [kind |-> "None"]

\* C7: when the write fails, find_hotspots_by_id returns the anchor location
\* and the category mapping as they were before the write, with an empty
\* saved-file path.
C7_SaveFailure ==
    [][(pc = "saving" /\ pc' = "done" /\ ~\E f \in files' : f.complete) =>
          /\ result'.kind = "dict"
          /\ result'.restaurant_location = restaurant_location[1]
          /\ result'.hotspots = all_hotspots
          /\ result'.saved_file = <<>>]_vars

\* a run with places found whose write failed, leaving a truncated file
C7_Witness ==
    /\ pc = "done"
    /\ result.kind = "dict"
    /\ result.saved_file = <<>>
    /\ \E f \in files : ~f.complete
    /\ \E c \in DOMAIN result.hotspots : Len(result.hotspots[c]) >= 2

\* the identifier contains ":" or starts with "0x"
LooksLikeDataId(ident) ==
    \/ \E i \in Indices(ident) : ident[i] = ":"
    \/ Len(ident) >= 2 /\ ident[1] = "0" /\ ident[2] = "x"

\* C8: with id type "auto" the resolve call treats the identifier as a data id
\* exactly when it contains ":" or starts with "0x", and as a place id
\* otherwise; with an explicit id type the type alone decides.
C8_IdTypeDetection ==
    ~IsNone(resolve_params) =>
        LET as_data_id  == resolve_params[1] =
                [engine |-> "google_maps_reviews", key |-> "data_id", value |-> identifier]
            as_place_id == resolve_params[1] =
                [engine |-> "google_maps", key |-> "place_id", value |-> identifier]
        IN  /\ id_type = "auto" =>
                  IF LooksLikeDataId(identifier) THEN as_data_id ELSE as_place_id
            /\ id_type = "data_id" => as_data_id
            /\ id_type = "place_id" => as_place_id

\* an identifier holding "0x" but not at its start and no ":", resolved with
\* id type "auto" as a place id
C8_Witness ==
    /\ ~IsNone(resolve_params)
    /\ id_type = "auto"
    /\ ~LooksLikeDataId(identifier)
    /\ \E i \in 1..(Len(identifier) - 1) : identifier[i] = "0" /\ identifier[i + 1] = "x"
    /\ resolve_params[1].key = "place_id"

\* the user interrupted the run while find_all_hotspots was searching: in a
\* nearby-search call or in the pause after one
InterruptedInSearch == ~IsNone(interrupt) /\ interrupt[1].during = "search"

\* the dict find_all_hotspots had accumulated when the interrupt came
Partial == interrupt[1].partial

PartialHasPlaces == \E c \in DOMAIN Partial : Partial[c] # <<>>

\* the caller can still get at the accumulated dict: as the hotspots of what
\* find_hotspots_by_id returned, or as a dict that outlived the interrupt
PartialDiscoverable ==
    \/ result.kind = "dict" /\ result.hotspots = Partial
    \/ all_hotspots = Partial

\* after an interrupt: no nearby-search call beyond those issued before it,
\* none in flight, and no file
StoppedAndUnsaved ==
    /\ Len(search_calls) = interrupt[1].calls
    /\ "search" \notin inflight
    /\ files = {}

\* C11 as stated: after an interrupt during the search no further
\* nearby-search call is made, no file is written, and the places accumulated
\* before the interrupt can still be got at by the caller.
C11_PartialDiscoverable ==
    (InterruptedInSearch /\ PartialHasPlaces) =>
        /\ StoppedAndUnsaved
        /\ PartialDiscoverable

\* C11: after an interrupt during the search the run is over in main's
\* KeyboardInterrupt handler: no further nearby-search call is made and no
\* file is written, find_hotspots_by_id has returned nothing, and the dict
\* accumulated before the interrupt is gone with find_all_hotspots' frame.
C11_InterruptDiscards ==
    InterruptedInSearch =>
        /\ pc = "interrupted"
        /\ StoppedAndUnsaved
        /\ inflight = {}
        /\ result = NoResult
        /\ ~PartialDiscoverable

\* an interrupt during the search that came when places had been accumulated
\* and nearby-search calls were still to be made
C11_Witness ==
    /\ pc = "interrupted"
    /\ InterruptedInSearch
    /\ PartialHasPlaces
    /\ interrupt[1].calls < Len(ExpectedCalls(CategoriesToSearch(categories)))
    /\ responses # <<>>

====
